---------------------------- MODULE Spec2Model ----------------------------
(***************************************************************************)
(* A model of CPPCLITODO.cpp: the in-memory task vector, the static        *)
(* Task::nextId counter, the tasks.txt file as a sequence of characters,   *)
(* and one action per menu handler.  A process run starts with main        *)
(* (loadTasksFromFile), loops over the menu and ends with selection 6; a   *)
(* later run starts again from the file the earlier run left.              *)
(***************************************************************************)
EXTENDS Integers, Sequences, FiniteSets, TLC

(* Bound of the model: the number of addTask calls over all runs. *)
MaxCreates == 3

VARIABLES
    pc,        \* "off" (not started), "menu" (in the while loop), "exited", "crashed"
    tasks,     \* std::vector<Task> of main
    nextId,    \* Task::nextId
    file,      \* tasks.txt: [exists, text]
    created,   \* history: the ids given by Task::Task in addTask, over all runs
    runIds,    \* history: the ids that were in the vector during this run
    last,      \* history: the handler that ran last, its inputs and its outcome
    reads,     \* history: the lines that handler read from std::cin, the selection first
    writable,  \* environment: whether tasks.txt can be opened for writing
    saved      \* history: what the save of that handler did: "none", "written", "failed"

vars == <<pc, tasks, nextId, file, created, runIds, last, reads, writable, saved>>

(* --------------------------- characters -------------------------------- *)

DELIM == "|"
NL == "\n"
DigitChars == <<"0", "1", "2", "3", "4", "5", "6", "7", "8", "9">>

(* The descriptions typed in the model.  std::getline(std::cin, ...) can   *)
(* return any text without a line break: here the empty text, a plain text *)
(* and a text that holds the delimiter.                                    *)
Descs == {<<>>, <<"a">>, <<"a", DELIM, "b">>}

(* operator<<(int): the decimal digits of a non-negative int. *)
RECURSIVE IntToStr(_)
IntToStr(n) ==
    IF n < 10 THEN <<DigitChars[n + 1]>>
    ELSE IntToStr(n \div 10) \o <<DigitChars[(n % 10) + 1]>>

IsDigit(c) == \E d \in 1..10 : DigitChars[d] = c
DigitVal(c) == (CHOOSE d \in 1..10 : DigitChars[d] = c) - 1

RECURSIVE DigitsValue(_, _)
DigitsValue(s, acc) ==
    IF s = <<>> \/ ~IsDigit(Head(s)) THEN acc
    ELSE DigitsValue(Tail(s), acc * 10 + DigitVal(Head(s)))

(* std::stoi: converts the leading run of digits; with no leading digit it *)
(* throws std::invalid_argument.                                           *)
stoiThrows(s) == s = <<>> \/ ~IsDigit(Head(s))
stoi(s) == DigitsValue(s, 0)

(* ----------------------------- streams --------------------------------- *)

FirstIndex(s, c) ==
    IF \E i \in 1..Len(s) : s[i] = c
    THEN CHOOSE i \in 1..Len(s) : s[i] = c /\ \A j \in 1..(i - 1) : s[j] # c
    ELSE 0

Stream(s) == [buf |-> s, eof |-> FALSE]

(* Mutant: getline that fails on an empty field. *)
getline_EmptyFails(st, delim) ==
    IF st.eof THEN [ok |-> FALSE, str |-> <<>>, st |-> st]
    ELSE LET p == FirstIndex(st.buf, delim)
         IN IF p > 0
            THEN [ok |-> p > 1, str |-> SubSeq(st.buf, 1, p - 1),
                  st |-> [buf |-> SubSeq(st.buf, p + 1, Len(st.buf)), eof |-> FALSE]]
            ELSE [ok |-> Len(st.buf) > 0, str |-> st.buf,
                  st |-> [buf |-> <<>>, eof |-> TRUE]]

(* std::getline(stream, str, delim): fails on a stream that already hit    *)
(* the end; otherwise reads up to and drops the delimiter, or reads to the *)
(* end (setting eofbit), and fails when it extracted nothing at all.       *)
getline(st, delim) ==
    IF st.eof THEN [ok |-> FALSE, str |-> <<>>, st |-> st]
    ELSE LET p == FirstIndex(st.buf, delim)
         IN IF p > 0
            THEN [ok |-> TRUE, str |-> SubSeq(st.buf, 1, p - 1),
                  st |-> [buf |-> SubSeq(st.buf, p + 1, Len(st.buf)), eof |-> FALSE]]
            ELSE [ok |-> Len(st.buf) > 0, str |-> st.buf,
                  st |-> [buf |-> <<>>, eof |-> TRUE]]

(* ------------------------------ Task ----------------------------------- *)

(* Task::Task(description): id(nextId++), completed(false). *)
Task(description, nid) ==
    [id |-> nid, description |-> description, completed |-> FALSE]

Ids(ts) == {ts[i].id : i \in 1..Len(ts)}

(* Mutant: a loop that ends on the last task when no id matches. *)
FindTask_FallsToLast(ts, id) ==
    IF \E i \in 1..Len(ts) : ts[i].id = id
    THEN CHOOSE i \in 1..Len(ts) : ts[i].id = id /\ \A j \in 1..(i - 1) : ts[j].id # id
    ELSE Len(ts)

(* The position of the first task of the vector with this id, 0 if none:   *)
(* the range-for loops of toggleTaskComplete, deleteTask and editTask.     *)
FindTask(ts, id) ==
    IF \E i \in 1..Len(ts) : ts[i].id = id
    THEN CHOOSE i \in 1..Len(ts) : ts[i].id = id /\ \A j \in 1..(i - 1) : ts[j].id # id
    ELSE 0

(* ---------------------------- tasks.txt -------------------------------- *)

NoFile == [exists |-> FALSE, text |-> <<>>]

TaskLine(t) ==
    IntToStr(t.id) \o <<DELIM>> \o t.description \o <<DELIM>>
        \o <<IF t.completed THEN "1" ELSE "0">> \o <<NL>>

RECURSIVE WriteTasks(_)
WriteTasks(ts) ==
    IF ts = <<>> THEN <<>> ELSE TaskLine(Head(ts)) \o WriteTasks(Tail(ts))

(* Mutant: the file opened with std::ios::app, so the lines are appended. *)
saveTasksToFile_Append(f, ts) == [exists |-> TRUE, text |-> f.text \o WriteTasks(ts)]

(* saveTasksToFile over the file f: std::ofstream creates the file or     *)
(* truncates it, then one line per task is written.                        *)
saveTasksToFile(f, ts) == [exists |-> TRUE, text |-> WriteTasks(ts)]

(* saveTasksToFile when the file may not open: the writes to a stream that *)
(* failed to open do nothing, and the file stays as it was.                *)
persist(f, ts) == IF writable THEN saveTasksToFile(f, ts) ELSE f

(* Mutant: the flag taken from the last character of the rest of the line. *)
completedOf_LastChar(completedStr) ==
    completedStr # <<>> /\ completedStr[Len(completedStr)] = "1"

(* bool completed = (completedStr == "1"). *)
completedOf(completedStr) == (completedStr = <<"1">>)

(* Mutant: the counter is left where the constructor put it. *)
NextIdAfterLine_Kept(id, n) == n

(* Mutant: setNextId(id) in place of setNextId(id + 1). *)
NextIdAfterLine_NoPlusOne(id, n) == IF id >= n THEN id ELSE n

(* Mutant: id > Task::getNextId() in place of >=. *)
NextIdAfterLine_Greater(id, n) == IF id > n THEN id + 1 ELSE n

(* if (id >= Task::getNextId()) Task::setNextId(id + 1), with n the value  *)
(* of Task::nextId after the constructor of the loaded Task incremented it.*)
NextIdAfterLine(id, n) == IF id >= n THEN id + 1 ELSE n

(* One pass of the while loop of loadTasksFromFile over a line already     *)
(* read: the three getline calls, then the Task built from the fields.     *)
LoadLine(line, ts, nid) ==
    LET g1 == getline(Stream(line), DELIM)
        g2 == getline(g1.st, DELIM)
        g3 == getline(g2.st, NL)
    IN IF ~(g1.ok /\ g2.ok /\ g3.ok)
       THEN [tasks |-> ts, nextId |-> nid, threw |-> FALSE]
       ELSE IF stoiThrows(g1.str)
       THEN [tasks |-> ts, nextId |-> nid, threw |-> TRUE]
       ELSE LET id == stoi(g1.str)
                completed == completedOf(g3.str)
                task == [Task(g2.str, nid) EXCEPT !.completed = completed, !.id = id]
            IN [tasks |-> Append(ts, task),
                nextId |-> NextIdAfterLine(id, nid + 1),
                threw |-> FALSE]

RECURSIVE LoadLoop(_, _, _)
LoadLoop(st, ts, nid) ==
    LET g == getline(st, NL)
    IN IF ~g.ok THEN [tasks |-> ts, nextId |-> nid, threw |-> FALSE]
       ELSE LET r == LoadLine(g.str, ts, nid)
            IN IF r.threw THEN r ELSE LoadLoop(g.st, r.tasks, r.nextId)

(* Mutant: a file that cannot be opened ends the program with an error. *)
loadTasksFromFile_MissingIsError(f, ts, nid) ==
    IF ~f.exists THEN [tasks |-> ts, nextId |-> nid, threw |-> TRUE]
    ELSE LoadLoop(Stream(f.text), ts, nid)

(* loadTasksFromFile(tasks) with Task::nextId = nid on entry. *)
loadTasksFromFile(f, ts, nid) ==
    IF ~f.exists THEN [tasks |-> ts, nextId |-> nid, threw |-> FALSE]
    ELSE LoadLoop(Stream(f.text), ts, nid)


(* --------------------------- the handlers ------------------------------ *)

(* What the user can type where an id is read: ids of tasks and ids of no  *)
(* task (one past the largest id the bounds allow, and deleted ids).       *)
IdInputs == 1..(MaxCreates + 1)

NoId == -1
Last(op, id, desc, outcome) ==
    [op |-> op, id |-> id, desc |-> desc, outcome |-> outcome]

(* task.setCompleted(!task.isCompleted()) on the i-th task. *)
setCompleted(ts, i) == [ts EXCEPT ![i].completed = ~ts[i].completed]

(* Mutant: the task replaced by a newly made one with the new text, which *)
(* loses the completed flag.                                               *)
setDescription_Rebuilt(ts, i, newDesc) ==
    [ts EXCEPT ![i].description = newDesc, ![i].completed = FALSE]

(* task.setDescription(newDesc) on the i-th task. *)
setDescription(ts, i, newDesc) == [ts EXCEPT ![i].description = newDesc]

(* Mutant: the last task moved into the place of the i-th, then pop_back. *)
erase_SwapPop(ts, i) ==
    [k \in 1..(Len(ts) - 1) |-> IF k = i THEN ts[Len(ts)] ELSE ts[k]]

(* Mutant: tasks.erase(it, tasks.end()). *)
erase_ToEnd(ts, i) == SubSeq(ts, 1, i - 1)

(* tasks.erase(it) with it at the i-th task. *)
erase(ts, i) == SubSeq(ts, 1, i - 1) \o SubSeq(ts, i + 1, Len(ts))

(* Mutant: tasks.insert(tasks.begin(), newTask). *)
push_front(ts, t) == <<t>> \o ts

(* tasks.push_back(newTask). *)
push_back(ts, t) == Append(ts, t)

(* toggleTaskComplete once the id is read: the loop over the tasks, the   *)
(* flip of the first match and the save; nothing changes without a match.  *)
toggleById(ts, f, id) ==
    LET i == FindTask(ts, id)
    IN IF i > 0
       THEN [found |-> TRUE, tasks |-> setCompleted(ts, i),
             file |-> persist(f, setCompleted(ts, i))]
       ELSE [found |-> FALSE, tasks |-> ts, file |-> f]

(* ---------------------------- std::cin --------------------------------- *)

(* Mutant: the failbit is not looked at and the id is left at 1. *)
extractInt_Unchecked(tok) ==
    IF tok = <<>> \/ ~IsDigit(Head(tok))
    THEN [ok |-> TRUE, val |-> 1]
    ELSE [ok |-> TRUE, val |-> DigitsValue(tok, 0)]

(* std::cin >> int on a line: the leading digits are converted; a line     *)
(* that does not start with a digit sets the failbit.                      *)
extractInt(tok) ==
    IF tok = <<>> \/ ~IsDigit(Head(tok))
    THEN [ok |-> FALSE, val |-> 0]
    ELSE [ok |-> TRUE, val |-> DigitsValue(tok, 0)]

(* The lines typed at the menu: the six selections, numbers outside 1..6   *)
(* and a line that is no number.                                           *)
MenuTokens == {IntToStr(n) : n \in 0..7} \cup {<<"a">>}

(* The lines typed where an id is read. *)
IdTokens == {IntToStr(n) : n \in IdInputs} \cup {<<"a">>}

(* getMenuInput: std::cin >> choice && choice >= 1 && choice <= 6. *)
validChoice(x) == x.ok /\ x.val >= 1 /\ x.val <= 6

(* Mutant: case 5 without its break, so that it runs into case 6. *)
caseOf_FallThrough(choice) ==
    CASE choice = 1 -> "add"
      [] choice = 2 -> "view"
      [] choice = 3 -> "toggle"
      [] choice = 4 -> "delete"
      [] choice = 5 -> "exit"
      [] choice = 6 -> "exit"
      [] OTHER -> "none"

(* The switch of main. *)
caseOf(choice) ==
    CASE choice = 1 -> "add"
      [] choice = 2 -> "view"
      [] choice = 3 -> "toggle"
      [] choice = 4 -> "delete"
      [] choice = 5 -> "edit"
      [] choice = 6 -> "exit"
      [] OTHER -> "none"

(* The menu lines that getMenuInput returns and the switch sends to each   *)
(* case.                                                                   *)
Selections ==
    [h \in {"add", "view", "toggle", "delete", "edit", "exit"} |->
        {tok \in MenuTokens :
            validChoice(extractInt(tok)) /\ caseOf(extractInt(tok).val) = h}]

(* What the save of a handler did. *)
SaveOutcome == IF writable THEN "written" ELSE "failed"

Init ==
    /\ pc = "off"
    /\ tasks = <<>>
    /\ nextId = 1
    /\ file = NoFile
    /\ created = <<>>
    /\ runIds = {}
    /\ last = Last("none", NoId, <<>>, "none")
    /\ reads = <<>>
    /\ writable = TRUE
    /\ saved = "none"

(* A process starts: the static Task::nextId is 1, the vector is empty,    *)
(* and main calls loadTasksFromFile before entering the loop.  An uncaught *)
(* exception of std::stoi ends the process.                                *)
main ==
    /\ pc \in {"off", "exited"}
    /\ LET r == loadTasksFromFile(file, <<>>, 1)
       IN /\ pc' = IF r.threw THEN "crashed" ELSE "menu"
          /\ tasks' = r.tasks
          /\ nextId' = r.nextId
          /\ runIds' = Ids(r.tasks)
    /\ last' = Last("load", NoId, <<>>, "done")
    /\ reads' = <<>>
    /\ saved' = "none"
    /\ UNCHANGED <<file, created, writable>>

(* getMenuInput on a selection that is no number or is outside 1..6: the   *)
(* rest of the line is dropped and the menu is shown again.                *)
getMenuInput ==
    /\ pc = "menu"
    /\ \E sel \in MenuTokens :
          /\ ~validChoice(extractInt(sel))
          /\ reads' = <<sel>>
    /\ last' = Last("menu", NoId, <<>>, "invalid")
    /\ saved' = "none"
    /\ UNCHANGED <<pc, tasks, nextId, file, created, runIds, writable>>

addTask ==
    /\ pc = "menu"
    /\ Len(created) < MaxCreates
    /\ \E sel \in Selections["add"], description \in Descs :
          LET newTask == Task(description, nextId)
          IN /\ nextId' = nextId + 1
             /\ tasks' = push_back(tasks, newTask)
             /\ file' = persist(file, tasks')
             /\ created' = Append(created, newTask.id)
             /\ runIds' = runIds \cup Ids(tasks')
             /\ last' = Last("add", newTask.id, description, "done")
             /\ reads' = <<sel, description>>
    /\ saved' = SaveOutcome
    /\ UNCHANGED <<pc, writable>>

viewTasks ==
    /\ pc = "menu"
    /\ \E sel \in Selections["view"] : reads' = <<sel>>
    /\ last' = Last("view", NoId, <<>>, IF tasks = <<>> THEN "empty" ELSE "done")
    /\ saved' = "none"
    /\ UNCHANGED <<pc, tasks, nextId, file, created, runIds, writable>>

(* Mutant: toggleTaskComplete without its check for an empty vector. *)
toggleTaskComplete_NoEmptyCheck ==
    /\ pc = "menu"
    /\ \E sel \in Selections["toggle"], tok \in IdTokens :
          \E x \in {extractInt(tok)} : \E r \in {toggleById(tasks, file, x.val)} :
             /\ reads' = <<sel, tok>>
             /\ IF ~x.ok
                THEN /\ last' = Last("toggle", NoId, <<>>, "invalid")
                     /\ saved' = "none"
                     /\ UNCHANGED <<tasks, file>>
                ELSE /\ tasks' = r.tasks
                     /\ file' = r.file
                     /\ last' = Last("toggle", x.val, <<>>,
                                     IF r.found THEN "done" ELSE "notfound")
                     /\ saved' = IF r.found THEN SaveOutcome ELSE "none"
    /\ UNCHANGED <<pc, nextId, created, runIds, writable>>

toggleTaskComplete ==
    /\ pc = "menu"
    /\ \E sel \in Selections["toggle"] :
          \/ /\ tasks = <<>>
             /\ reads' = <<sel>>
             /\ last' = Last("toggle", NoId, <<>>, "empty")
             /\ saved' = "none"
             /\ UNCHANGED <<tasks, file>>
          \/ /\ tasks # <<>>
             /\ \E tok \in IdTokens :
                   \E x \in {extractInt(tok)} : \E r \in {toggleById(tasks, file, x.val)} :
                      /\ reads' = <<sel, tok>>
                      /\ IF ~x.ok
                         THEN /\ last' = Last("toggle", NoId, <<>>, "invalid")
                              /\ saved' = "none"
                              /\ UNCHANGED <<tasks, file>>
                         ELSE /\ tasks' = r.tasks
                              /\ file' = r.file
                              /\ last' = Last("toggle", x.val, <<>>,
                                              IF r.found THEN "done" ELSE "notfound")
                              /\ saved' = IF r.found THEN SaveOutcome ELSE "none"
    /\ UNCHANGED <<pc, nextId, created, runIds, writable>>

deleteTask ==
    /\ pc = "menu"
    /\ \E sel \in Selections["delete"] :
          \/ /\ tasks = <<>>
             /\ reads' = <<sel>>
             /\ last' = Last("delete", NoId, <<>>, "empty")
             /\ saved' = "none"
             /\ UNCHANGED <<tasks, file>>
          \/ /\ tasks # <<>>
             /\ \E tok \in IdTokens :
                   \E x \in {extractInt(tok)} : \E i \in {FindTask(tasks, x.val)} :
                      /\ reads' = <<sel, tok>>
                      /\ IF ~x.ok
                         THEN /\ last' = Last("delete", NoId, <<>>, "invalid")
                              /\ saved' = "none"
                              /\ UNCHANGED <<tasks, file>>
                         ELSE IF i > 0
                         THEN /\ tasks' = erase(tasks, i)
                              /\ file' = persist(file, tasks')
                              /\ last' = Last("delete", x.val, <<>>, "done")
                              /\ saved' = SaveOutcome
                         ELSE /\ last' = Last("delete", x.val, <<>>, "notfound")
                              /\ saved' = "none"
                              /\ UNCHANGED <<tasks, file>>
    /\ UNCHANGED <<pc, nextId, created, runIds, writable>>

editTask ==
    /\ pc = "menu"
    /\ \E sel \in Selections["edit"] :
          \/ /\ tasks = <<>>
             /\ reads' = <<sel>>
             /\ last' = Last("edit", NoId, <<>>, "empty")
             /\ saved' = "none"
             /\ UNCHANGED <<tasks, file>>
          \/ /\ tasks # <<>>
             /\ \E tok \in IdTokens :
                   \E x \in {extractInt(tok)} : \E i \in {FindTask(tasks, x.val)} :
                      IF ~x.ok
                      THEN /\ reads' = <<sel, tok>>
                           /\ last' = Last("edit", NoId, <<>>, "invalid")
                           /\ saved' = "none"
                           /\ UNCHANGED <<tasks, file>>
                      ELSE IF i > 0
                      THEN \E newDesc \in Descs :
                             /\ reads' = <<sel, tok, newDesc>>
                             /\ tasks' = setDescription(tasks, i, newDesc)
                             /\ file' = persist(file, tasks')
                             /\ last' = Last("edit", x.val, newDesc, "done")
                             /\ saved' = SaveOutcome
                      ELSE /\ reads' = <<sel, tok>>
                           /\ last' = Last("edit", x.val, <<>>, "notfound")
                           /\ saved' = "none"
                           /\ UNCHANGED <<tasks, file>>
    /\ UNCHANGED <<pc, nextId, created, runIds, writable>>

(* Selection 6: main returns 0. *)
exitProgram ==
    /\ pc = "menu"
    /\ \E sel \in Selections["exit"] : reads' = <<sel>>
    /\ pc' = "exited"
    /\ last' = Last("exit", NoId, <<>>, "done")
    /\ saved' = "none"
    /\ UNCHANGED <<tasks, nextId, file, created, runIds, writable>>

Next ==
    \/ main
    \/ getMenuInput
    \/ addTask
    \/ viewTasks
    \/ toggleTaskComplete
    \/ deleteTask
    \/ editTask
    \/ exitProgram

(* The program with a tasks.txt that can always be written. *)
Spec == Init /\ [][Next]_vars

(* The environment of a store whose tasks.txt may be unwritable: whether   *)
(* std::ofstream can open the file is fixed before the first run.          *)
InitIO ==
    /\ pc = "off"
    /\ tasks = <<>>
    /\ nextId = 1
    /\ file = NoFile
    /\ created = <<>>
    /\ runIds = {}
    /\ last = Last("none", NoId, <<>>, "none")
    /\ reads = <<>>
    /\ writable \in BOOLEAN
    /\ saved = "none"

(* The program with a tasks.txt that may fail to open for writing. *)
SpecIO == InitIO /\ [][Next]_vars

(* ------------------------------ claims --------------------------------- *)

Mutating == {"add", "edit", "toggle", "delete"}

(* C1: the round-trip law.  Whatever sequence the handlers have built,     *)
(* writing it with saveTasksToFile and reading that file with              *)
(* loadTasksFromFile into an empty vector gives the same sequence again:   *)
(* same length, order, ids, descriptions and completed flags.              *)
C1_RoundTrip ==
    pc = "menu" =>
        LET r == loadTasksFromFile(saveTasksToFile(file, tasks), <<>>, 1)
        IN ~r.threw /\ r.tasks = tasks

(* C2: no id is given twice.  Over all runs, the ids that addTask gave     *)
(* its new tasks are pairwise different, deleted tasks included.           *)
C2_IdsNeverReused ==
    \A i, j \in 1..Len(created) : i # j => created[i] # created[j]

(* C3: in every reachable state the ids of the tasks in the vector are     *)
(* pairwise distinct.                                                      *)
C3_IdsDistinct ==
    \A i, j \in 1..Len(tasks) : i # j => tasks[i].id # tasks[j].id

(* C3's case: a run that loaded tasks from the file, after an earlier      *)
(* task was deleted, and then added one.                                   *)
C3_Witness ==
    /\ pc = "menu"
    /\ last.op = "add"
    /\ Len(tasks) >= 2
    /\ runIds # {created[k] : k \in 1..Len(created)}
    /\ Len(created) > Len(tasks)

(* C4: within a run, once loadTasksFromFile has returned, Task::nextId is  *)
(* greater than the id of every task that is or was in the vector during   *)
(* the run.                                                                *)
C4_NextIdAboveRunIds ==
    pc \in {"menu", "exited"} =>
        \A id \in runIds \cup Ids(tasks) : nextId > id

(* C4's case: a run that loaded a task with an id above 1 and later        *)
(* deleted a task.                                                         *)
C4_Witness ==
    /\ pc = "menu"
    /\ last.op = "delete" /\ last.outcome = "done"
    /\ runIds # Ids(tasks)
    /\ \E id \in Ids(tasks) : id > 1
    /\ Len(created) = MaxCreates

(* C5: persistence tracks memory.  Right after an add, edit, toggle or     *)
(* delete that changed the vector, tasks.txt holds exactly one line        *)
(* id|description|completed per task of the vector, in the vector's order, *)
(* each ended by a line break, and nothing else (nothing of the earlier    *)
(* contents is kept).                                                      *)
C5_FileTracksMemory ==
    (last.op \in Mutating /\ last.outcome = "done") =>
        LET line(t) == IntToStr(t.id) \o <<"|">> \o t.description \o <<"|">>
                           \o (IF t.completed THEN <<"1">> ELSE <<"0">>) \o <<"\n">>
            start(k) == LET pre[i \in 0..Len(tasks)] ==
                                IF i = 0 THEN 0 ELSE pre[i - 1] + Len(line(tasks[i]))
                        IN pre[k]
        IN /\ file.exists
           /\ Len(file.text) = start(Len(tasks))
           /\ \A k \in 1..Len(tasks) :
                 SubSeq(file.text, start(k - 1) + 1, start(k)) = line(tasks[k])

(* C5's case: a save that made the file shorter than it was, after a task  *)
(* was deleted while other tasks stayed.                                   *)
C5_Witness ==
    /\ last.op = "delete" /\ last.outcome = "done"
    /\ Len(tasks) >= 2
    /\ \E k \in 1..Len(tasks) : tasks[k].completed

(* C6: Create.  addTask gives the new task the id Task::nextId had before  *)
(* the call, raises Task::nextId by one, sets completed to false, keeps    *)
(* the description as typed and appends the task, leaving the tasks before *)
(* it as they were; hence the new id is larger than every id the vector    *)
(* held during the run (the ids of one run's Create calls increase).       *)
C6_Create ==
    [][last'.op = "add" =>
          /\ tasks' = Append(tasks, [id |-> nextId, description |-> last'.desc,
                                     completed |-> FALSE])
          /\ nextId' = nextId + 1
          /\ last'.id = nextId
          /\ \A id \in runIds : id < last'.id]_vars

(* C6's case: a Create with a non-empty description after earlier tasks,   *)
(* one of them deleted since.                                              *)
C6_Witness ==
    /\ last.op = "add"
    /\ Len(tasks) >= 2
    /\ last.desc # <<>>
    /\ runIds # Ids(tasks)

(* C7: NotFound changes nothing.  When toggle, delete or edit is given an  *)
(* id that no task of the vector has, the vector, Task::nextId and         *)
(* tasks.txt are after the handler what they were before it, the outcome   *)
(* is the not-found report and the program is back at the menu.            *)
C7_NotFoundUnchanged ==
    [][(last'.op \in {"toggle", "delete", "edit"} /\ last'.id # NoId
            /\ last'.id \notin Ids(tasks)) =>
          /\ tasks' = tasks
          /\ nextId' = nextId
          /\ file' = file
          /\ last'.outcome = "notfound"
          /\ pc' = "menu"]_vars

(* C7's case: an edit of an id no task has, with tasks in the vector. *)
C7_Witness ==
    /\ last.op = "edit" /\ last.outcome = "notfound"
    /\ Len(tasks) >= 2
    /\ pc = "menu"

(* C8: Delete of an id in the vector removes exactly that record: no task  *)
(* of the vector and no line of tasks.txt has the id afterwards, the       *)
(* vector is one shorter, and the other tasks keep their fields and their  *)
(* order.                                                                  *)
C8_DeleteExactlyOne ==
    [][(last'.op = "delete" /\ last'.id \in Ids(tasks)) =>
          \A id \in {last'.id}, onFile \in {loadTasksFromFile(file', <<>>, 1).tasks} :
             /\ id \notin Ids(tasks')
             /\ id \notin Ids(onFile)
             /\ Len(onFile) = Len(tasks')
             /\ Len(tasks') = Len(tasks) - 1
             /\ \E k \in 1..Len(tasks) :
                   /\ tasks[k].id = id
                   /\ \A i \in 1..Len(tasks') :
                         tasks'[i] = IF i < k THEN tasks[i] ELSE tasks[i + 1]]_vars

(* C8's case: a delete that left at least two tasks, so one before or      *)
(* after the deleted one kept its place among the others.                  *)
C8_Witness ==
    /\ last.op = "delete" /\ last.outcome = "done"
    /\ Len(tasks) >= 2
    /\ \E k \in 1..Len(tasks) : tasks[k].id > last.id
    /\ \E k \in 1..Len(tasks) : tasks[k].id < last.id

(* C9: toggling an id of the vector flips the completed flag of that task  *)
(* and nothing else, and toggling the same id twice in a row gives back    *)
(* the vector and the tasks.txt that were there before the first toggle.   *)
C9_ToggleTwice ==
    pc = "menu" =>
        \A id \in Ids(tasks) :
            LET r1 == toggleById(tasks, file, id)
                r2 == toggleById(r1.tasks, r1.file, id)
            IN /\ r1.found /\ r2.found
               /\ Len(r1.tasks) = Len(tasks)
               /\ \A k \in 1..Len(tasks) :
                     /\ r1.tasks[k].id = tasks[k].id
                     /\ r1.tasks[k].description = tasks[k].description
                     /\ r1.tasks[k].completed =
                           IF tasks[k].id = id THEN ~tasks[k].completed
                           ELSE tasks[k].completed
               /\ r2.tasks = tasks
               /\ r2.file = file

(* C10: Edit of an id in the vector replaces the description of that task  *)
(* and nothing else: its id and completed flag, the other tasks, the       *)
(* order, the length and Task::nextId stay.                                *)
C10_EditOnlyDescription ==
    [][(last'.op = "edit" /\ last'.id \in Ids(tasks)) =>
          /\ Len(tasks') = Len(tasks)
          /\ nextId' = nextId
          /\ \A k \in 1..Len(tasks) :
                /\ tasks'[k].id = tasks[k].id
                /\ tasks'[k].completed = tasks[k].completed
                /\ tasks'[k].description =
                      IF tasks[k].id = last'.id THEN last'.desc
                      ELSE tasks[k].description]_vars

(* C10's case: an edit of a completed task, with another task beside it. *)
C10_Witness ==
    /\ last.op = "edit" /\ last.outcome = "done"
    /\ Len(tasks) >= 2
    /\ \E k \in 1..Len(tasks) :
          /\ tasks[k].id = last.id
          /\ tasks[k].completed
          /\ tasks[k].description = last.desc
          /\ last.desc # <<>>

(* C12: a missing tasks.txt is no error.  A run started with no file gets  *)
(* an empty vector and Task::nextId = 1 and reaches the menu, and the      *)
(* first addTask after that leaves the vector holding exactly one task,    *)
(* with id 1, the description typed and completed false.                   *)
C12_MissingFileIsEmpty ==
    [][/\ (last'.op = "load" /\ ~file.exists) =>
              (tasks' = <<>> /\ nextId' = 1 /\ pc' = "menu")
       /\ (last'.op = "add" /\ ~file.exists) =>
              tasks' = <<[id |-> 1, description |-> last'.desc,
                          completed |-> FALSE]>>]_vars

(* C12's case: the first task of a store that had no file, with a          *)
(* description typed.                                                      *)
C12_Witness ==
    /\ last.op = "add"
    /\ created = <<1>>
    /\ Len(tasks) = 1
    /\ tasks[1].description # <<>>

HasDelim(d) == \E i \in 1..Len(d) : d[i] = "|"

(* C16: for a vector in which no description holds '|' (empty ones         *)
(* allowed), saveTasksToFile followed by loadTasksFromFile into an empty   *)
(* vector gives the same records in the same order, empty descriptions and *)
(* completed flags included.                                               *)
C16_RoundTripWithoutDelim ==
    (pc = "menu" /\ \A k \in 1..Len(tasks) : ~HasDelim(tasks[k].description)) =>
        LET r == loadTasksFromFile(saveTasksToFile(file, tasks), <<>>, 1)
        IN ~r.threw /\ r.tasks = tasks

(* C16's case: a vector with an empty description, a non-empty one and a   *)
(* completed task, none with '|'.                                          *)
C16_Witness ==
    /\ pc = "menu"
    /\ Len(tasks) >= 2
    /\ \A k \in 1..Len(tasks) : ~HasDelim(tasks[k].description)
    /\ \E k \in 1..Len(tasks) : tasks[k].description = <<>>
    /\ \E k \in 1..Len(tasks) : tasks[k].description # <<>>
    /\ \E k \in 1..Len(tasks) : tasks[k].completed

(* C17: when loadTasksFromFile has read a file this program wrote,         *)
(* Task::nextId is the largest id of the file plus one, or 1 when the file *)
(* holds no task.                                                          *)
C17_NextIdAfterLoad ==
    (last.op = "load" /\ pc = "menu") =>
        /\ tasks = <<>> => nextId = 1
        /\ tasks # <<>> =>
              \E k \in 1..Len(tasks) :
                 /\ \A j \in 1..Len(tasks) : tasks[j].id <= tasks[k].id
                 /\ nextId = tasks[k].id + 1

(* C17's case: a load of a file with several tasks whose ids do not start  *)
(* at 1, so that the constructor's increments alone would not reach them.  *)
C17_Witness ==
    /\ last.op = "load" /\ pc = "menu"
    /\ file.exists
    /\ Len(tasks) >= 2
    /\ 1 \notin Ids(tasks)

(* C18: in every reachable state the vector and tasks.txt list the tasks   *)
(* in strictly ascending id order, and no step changes the relative order  *)
(* of two tasks that are in the vector before and after it.                *)
C18_AscendingOrder ==
    /\ [](/\ \A i, j \in 1..Len(tasks) : i < j => tasks[i].id < tasks[j].id
          /\ \A onFile \in {loadTasksFromFile(file, <<>>, 1).tasks} :
                \A i, j \in 1..Len(onFile) : i < j => onFile[i].id < onFile[j].id)
    /\ [][tasks' # tasks =>
             LET pos(ts, id) == CHOOSE k \in 1..Len(ts) : ts[k].id = id
             IN \A a, b \in Ids(tasks) \cap Ids(tasks') :
                   pos(tasks, a) < pos(tasks, b) => pos(tasks', a) < pos(tasks', b)]_vars

(* C18's case: a toggle in a vector of at least two tasks whose ids do not *)
(* start at 1, the first task having been deleted.                         *)
C18_Witness ==
    /\ last.op = "toggle" /\ last.outcome = "done"
    /\ Len(tasks) >= 2
    /\ 1 \notin Ids(tasks)

(* C19: saving and reloading a vector in which a description holds '|'     *)
(* keeps the number of records, their order and every id; a record with    *)
(* '|' in its description comes back with the description cut before its   *)
(* first '|' and with completed false, a record without '|' comes back     *)
(* unchanged.                                                              *)
C19_DelimTruncates ==
    pc = "menu" =>
        LET r == loadTasksFromFile(saveTasksToFile(file, tasks), <<>>, 1)
            cut(d) == SubSeq(d, 1, (CHOOSE i \in 1..Len(d) :
                                      d[i] = "|" /\ \A j \in 1..(i - 1) : d[j] # "|") - 1)
        IN /\ ~r.threw
           /\ Len(r.tasks) = Len(tasks)
           /\ \A k \in 1..Len(tasks) :
                 /\ r.tasks[k].id = tasks[k].id
                 /\ IF HasDelim(tasks[k].description)
                    THEN /\ r.tasks[k].description = cut(tasks[k].description)
                         /\ r.tasks[k].completed = FALSE
                    ELSE r.tasks[k] = tasks[k]

(* C19's case: a completed task with '|' in its description beside a task  *)
(* without '|'.                                                            *)
C19_Witness ==
    /\ pc = "menu"
    /\ \E k \in 1..Len(tasks) :
          HasDelim(tasks[k].description) /\ tasks[k].completed
    /\ \E k \in 1..Len(tasks) :
          ~HasDelim(tasks[k].description) /\ tasks[k].completed

(* C11: when the write of tasks.txt fails during an add, edit, toggle or   *)
(* delete, the outcome the user gets differs from the outcome of a         *)
(* successful save, and the vector holds the result of the operation.      *)
C11_WriteFailureReported ==
    saved = "failed" =>
        /\ last.outcome # "done"
        /\ last.op = "add" => tasks[Len(tasks)].id = last.id

(* C13: the shell has one state.  At the menu, a selection that is no      *)
(* number or is outside 1..6 shows the menu again and leaves the vector,   *)
(* Task::nextId and tasks.txt as they were; selections 1..5 come back to   *)
(* the menu; the program exits on selection 6 and on nothing else.         *)
C13_MenuLoop ==
    [][pc = "menu" =>
          LET sel == reads'[1]
              oneToFive == {<<"1">>, <<"2">>, <<"3">>, <<"4">>, <<"5">>}
          IN /\ sel \notin oneToFive \cup {<<"6">>} =>
                   /\ pc' = "menu"
                   /\ last'.op = "menu"
                   /\ tasks' = tasks /\ nextId' = nextId /\ file' = file
             /\ sel \in oneToFive => pc' = "menu"
             /\ pc' = "exited" <=> sel = <<"6">>]_vars

(* C13's case: a number outside 1..6 typed at the menu of a store that     *)
(* holds tasks.                                                            *)
C13_Witness ==
    /\ last.op = "menu"
    /\ reads = <<<<"7">>>>
    /\ tasks # <<>>
    /\ pc = "menu"

(* C14: a line that is no number, typed where toggle, delete or edit read  *)
(* the id, ends the handler with the invalid-input report: the program is  *)
(* back at the menu and the vector, Task::nextId and tasks.txt are as they *)
(* were.                                                                   *)
C14_NonNumericId ==
    [][(/\ last'.op \in {"toggle", "delete", "edit"}
        /\ Len(reads') >= 2
        /\ (reads'[2] = <<>> \/ ~IsDigit(Head(reads'[2])))) =>
          /\ last'.outcome = "invalid"
          /\ pc' = "menu"
          /\ tasks' = tasks /\ nextId' = nextId /\ file' = file]_vars

(* C14's case: a non-numeric id typed for a delete in a store with tasks. *)
C14_Witness ==
    /\ last.op = "delete" /\ last.outcome = "invalid"
    /\ reads = <<<<"4">>, <<"a">>>>
    /\ Len(tasks) >= 2
    /\ pc = "menu"

(* C15, as claimed: in every store state, the empty store included,        *)
(* selections 3, 4 and 5 read an id from the input before they return to   *)
(* the menu, an id of no task gets the not-found report, and the handler   *)
(* then reads nothing more, so the line after the id is the next           *)
(* selection.                                                              *)
C15_AlwaysReadsId ==
    [][last'.op \in {"toggle", "delete", "edit"} =>
          /\ Len(reads') >= 2
          /\ (extractInt(reads'[2]).ok /\ extractInt(reads'[2]).val \notin Ids(tasks)) =>
                (last'.outcome = "notfound" /\ Len(reads') = 2)]_vars

(* C15, amended: with at least one task in the vector, selections 3, 4 and *)
(* 5 read an id before they return to the menu, an id of no task gets the  *)
(* not-found report and the handler then reads nothing more; with an empty *)
(* vector they report that there are no tasks and read nothing after the   *)
(* selection, so the next line is taken as the next selection.             *)
C15_ReadsIdUnlessEmpty ==
    [][last'.op \in {"toggle", "delete", "edit"} =>
          IF tasks = <<>>
          THEN /\ Len(reads') = 1
               /\ last'.outcome = "empty"
               /\ pc' = "menu"
          ELSE /\ Len(reads') >= 2
               /\ reads'[2] \in IdTokens
               /\ (~(reads'[2] = <<>> \/ ~IsDigit(Head(reads'[2])))
                     /\ DigitsValue(reads'[2], 0) \notin Ids(tasks)) =>
                     (last'.outcome = "notfound" /\ Len(reads') = 2)
               /\ pc' = "menu"]_vars

(* C15's case: selection 3 on a store emptied by deletes: the handler has  *)
(* returned after reading the selection alone.                             *)
C15_Witness ==
    /\ last.op = "toggle" /\ last.outcome = "empty"
    /\ reads = <<<<"3">>>>
    /\ file.exists
    /\ created # <<>>

=============================================================================
